---- MODULE Spec2Model ----
(***************************************************************************)
(* Provider registry (ProviderConfigManager) and provider client           *)
(* (ZaiAPIClient) of claude-flow, as state machines.                       *)
(*                                                                         *)
(* The providers mapping of the registry is a JavaScript object: its       *)
(* iteration order is the insertion order of its keys, so it is modelled   *)
(* as a sequence of entries, each carrying its key in the field id.        *)
(* An optional value (ProviderConfig | null, a file that may be missing)   *)
(* is a sequence of length 0 or 1.                                         *)
(***************************************************************************)
EXTENDS Integers, Sequences, FiniteSets, TLC

VARIABLES
    env,        \* provider id -> value of its API key environment variable
    registry,   \* ProviderConfigManager.registry
    file,       \* content of ~/.claude-flow/providers.json, << >> if unreadable
    writable,   \* whether ~/.claude-flow and the file in it can be written
    lastOp,     \* the registry operation that ran last and how it ended; id is
                \* its name argument, for initialize and importConfiguration
                \* the activeProvider of the registry that was read
    client,     \* ZaiAPIClient: config.apiKey and its circuit breaker
    lastCall,   \* the client call that ran last and how it ended
    netCalls,   \* number of fetch() calls the client has made
    cbCalls,    \* number of circuitBreaker.execute() calls the client has made
    cfg,        \* ZaiAPIClient.config, its texts spelled out character by character
    got,        \* the last value getConfig() returned and the config it was made of
    req,        \* the makeRequest() / makeStreamingRequest() call in progress
    delivered,  \* ids of the chunks passed to onChunk by the streaming call
    reads,      \* number of reader.read() results the streaming call has processed
    doneRead,   \* a line 'data: [DONE]' has been read by the streaming call
    expected,   \* ids of the chunk lines read before the first 'data: [DONE]' line
    timers,     \* the interval timers of the client that are active in the runtime
    healthCheckTimer,   \* the client's field healthCheckTimer: 0 is undefined
    lastHealthCheck,    \* the client's field lastHealthCheck
    pending,    \* errors of the probes of the performHealthCheck() calls under way
    saves,      \* the saveConfiguration() calls under way: where each is, what it writes
    breakers,   \* the circuit breakers of the process
    peerCall,   \* the last call made through one of two clients
    failed,     \* the clients of the two through which a call has failed
    held,       \* the registry object the caller of export / import holds
    aliased,    \* the caller's object is the manager's registry object itself
    responseBody,   \* the text of the response body of a streaming call
    wire,       \* the part of that text not yet read
    throws,     \* ids of the chunks for which the caller's onChunk raises an exception
    pick,       \* a registry with load balancing, a draw, and what getNextProvider() returned
    classified, \* a raw error, what caused it, and what handleAPIError() made of it
    merged,     \* an environment, the providers of a file, and what loadConfiguration()
                \* made of them
    cli         \* the last invocation of the provider CLI: its command, exit code and
                \* how the requested action ended

registryCore == <<env, registry, file, writable, lastOp>>
clientCore == <<client, lastCall, netCalls, cbCalls>>
configVars == <<cfg, got>>
streamVars == <<req, delivered, reads, doneRead, expected>>
healthVars == <<timers, healthCheckTimer, lastHealthCheck, pending>>
saveVars == <<saves>>
peerVars == <<breakers, peerCall, failed>>
aliasVars == <<held, aliased>>
chunkVars == <<responseBody, wire, throws>>
balanceVars == <<pick>>
classifyVars == <<classified>>
mergeVars == <<merged>>
cliVars == <<cli>>
moreVars == <<chunkVars, balanceVars, classifyVars, mergeVars, cliVars>>

\* the variables the operations of the other components leave alone
auxVars == <<configVars, streamVars, healthVars, saveVars, peerVars, aliasVars, moreVars>>

vars == <<registryCore, clientCore, auxVars>>

\* what a client operation leaves alone, what a registry operation leaves alone
registryVars == <<registryCore, auxVars>>
clientVars == <<clientCore, auxVars>>

----------------------------------------------------------------------------
(* Bounds of the model *)

\* circuitBreaker.execute() calls in one run of the client
MaxCalls == 6
\* reader.read() results of one streaming response
MaxReads == 2
\* lines in one reader.read() result
MaxLines == 2
\* performHealthCheck() calls under way at one time
MaxProbes == 1
\* saveConfiguration() calls under way at one time
MaxSaves == 2
\* ZaiAPIClient instances in the process
NumClients == 2
\* lines in the response body of a streaming call read as text
MaxBodyLines == 2
\* Math.random() takes the values r / RandomSteps, r in 0 .. RandomSteps - 1
RandomSteps == 2

----------------------------------------------------------------------------
(* Program constants *)

AnthropicPriority == 80
OpenAIPriority == 70
ZaiPriority == 90
ZaiWeight == 50
AnthropicWeight == 30
OpenAIWeight == 20
CircuitBreakerThreshold == 5

None == << >>
Some(x) == <<x>>

\* the empty string: a falsy apiKey, the activeProvider of "no provider"
Empty == ""

\* the names the operations are called with; "custom" is no default provider
OpIds == {"anthropic", "zai", "custom"}
ApiKeys == {Empty, "k1"}

Provider(id, apiKey, enabled, priority) ==
    [id |-> id, apiKey |-> apiKey, enabled |-> enabled, priority |-> priority]

----------------------------------------------------------------------------
(* The providers mapping *)

Keys(ps) == {ps[i].id : i \in 1..Len(ps)}

\* providers[id], << >> when the key is absent (undefined)
Lookup(ps, id) ==
    IF id \in Keys(ps)
    THEN Some(ps[CHOOSE i \in 1..Len(ps) : ps[i].id = id])
    ELSE None

\* providers[id] = p: an existing key keeps its place, a new key goes last
Assign(ps, p) ==
    IF p.id \in Keys(ps)
    THEN [i \in 1..Len(ps) |-> IF ps[i].id = p.id THEN p ELSE ps[i]]
    ELSE Append(ps, p)

\* delete providers[id]
Delete(ps, id) == SelectSeq(ps, LAMBDA p : p.id # id)

\* Object.entries(providers).filter(([, provider]) => provider.enabled)
EnabledEntries(ps) == SelectSeq(ps, LAMBDA p : p.enabled)

\* InsertByPriority with a comparison that puts p before its equals
RECURSIVE InsertBeforeEquals(_, _)
InsertBeforeEquals(s, p) ==
    IF s = << >> THEN <<p>>
    ELSE IF Head(s).priority > p.priority
         THEN <<Head(s)>> \o InsertBeforeEquals(Tail(s), p)
         ELSE <<p>> \o s

\* insert p into s, sorted by descending priority, behind the entries that
\* compare equal to it
RECURSIVE InsertByPriority(_, _)
InsertByPriority(s, p) ==
    IF s = << >> THEN <<p>>
    ELSE IF Head(s).priority >= p.priority
         THEN <<Head(s)>> \o InsertByPriority(Tail(s), p)
         ELSE <<p>> \o s

\* .sort(([, a], [, b]) => b.priority - a.priority): Array.prototype.sort is
\* stable, entries of equal priority keep their order
RECURSIVE SortByPriority(_)
SortByPriority(s) ==
    IF s = << >> THEN << >>
    ELSE InsertByPriority(SortByPriority(SubSeq(s, 1, Len(s) - 1)), s[Len(s)])

----------------------------------------------------------------------------
(* The registry *)

Weights == [zai |-> ZaiWeight, anthropic |-> AnthropicWeight, openai |-> OpenAIWeight]

\* getDefaultRegistry(): apiKey is process.env.X || '', enabled is !!process.env.X
DefaultProviders(e) ==
    <<Provider("anthropic", e["anthropic"], e["anthropic"] # Empty, AnthropicPriority),
      Provider("openai", e["openai"], e["openai"] # Empty, OpenAIPriority),
      Provider("zai", e["zai"], e["zai"] # Empty, ZaiPriority)>>

DefaultRegistry(e) ==
    [activeProvider |-> "zai",
     providers |-> DefaultProviders(e),
     fallbackOrder |-> <<"zai", "anthropic", "openai">>,
     loadBalancing |-> [enabled |-> FALSE, strategy |-> "weighted", weights |-> Weights]]

\* JSON.parse(JSON.stringify(registry)): a value rebuilt member by member;
\* every member of the modelled registry is a string, a boolean, an integer,
\* an array or an object of these, which JSON keeps
JsonClone(reg) ==
    [activeProvider |-> reg.activeProvider,
     providers |-> [i \in 1..Len(reg.providers) |->
                       Provider(reg.providers[i].id, reg.providers[i].apiKey,
                                reg.providers[i].enabled, reg.providers[i].priority)],
     fallbackOrder |-> [i \in 1..Len(reg.fallbackOrder) |-> reg.fallbackOrder[i]],
     loadBalancing |-> [enabled |-> reg.loadBalancing.enabled,
                        strategy |-> reg.loadBalancing.strategy,
                        weights |-> reg.loadBalancing.weights]]

\* {...defaults.providers, ...loaded.providers}: the default keys first, each
\* with the loaded entry when the file has one, then the other loaded keys
MergeProviders(defaults, loaded) ==
    [i \in 1..Len(defaults) |->
        IF defaults[i].id \in Keys(loaded) THEN Lookup(loaded, defaults[i].id)[1]
        ELSE defaults[i]]
    \o SelectSeq(loaded, LAMBDA p : p.id \notin Keys(defaults))

\* loadConfiguration(): a file that cannot be read or parsed leaves the
\* registry as it is
LoadConfiguration(reg, e, f) ==
    IF f = None THEN reg
    ELSE [activeProvider |-> f[1].activeProvider,
          providers |-> MergeProviders(DefaultProviders(e), f[1].providers),
          fallbackOrder |-> f[1].fallbackOrder,
          loadBalancing |-> f[1].loadBalancing]

\* first loop of validateProviders()
DisableKeyless(ps) ==
    [i \in 1..Len(ps) |->
        IF ps[i].enabled /\ ps[i].apiKey = Empty
        THEN [ps[i] EXCEPT !.enabled = FALSE] ELSE ps[i]]

\* the entry named by activeProvider exists and is enabled
ActiveUsable(ps, active) ==
    /\ Lookup(ps, active) # None
    /\ Lookup(ps, active)[1].enabled

\* validateProviders()
ValidateProviders(reg) ==
    LET ps == DisableKeyless(reg.providers)
        sorted == SortByPriority(EnabledEntries(ps))
    IN  [reg EXCEPT
            !.providers = ps,
            !.activeProvider =
                IF ActiveUsable(ps, reg.activeProvider) THEN @
                ELSE IF Len(sorted) > 0 THEN sorted[1].id
                ELSE @]

\* the re-selection of removeProvider() and toggleProvider(): the first of
\* the enabled entries of ps sorted by priority, '' when there is none
Reselect(ps) ==
    LET sorted == SortByPriority(EnabledEntries(ps))
    IN  IF Len(sorted) > 0 THEN sorted[1].id ELSE Empty

\* getActiveProvider() without the test of provider.enabled
GetActiveProviderAnyState(reg) == Lookup(reg.providers, reg.activeProvider)

\* getActiveProvider()
GetActiveProvider(reg) ==
    LET provider == Lookup(reg.providers, reg.activeProvider)
    IN  IF provider # None /\ provider[1].enabled THEN provider ELSE None

\* exportConfiguration()
ExportConfiguration(reg) == JsonClone(reg)

\* the registry of importConfiguration(r) before it is saved
ImportConfiguration(r) == ValidateProviders(r)

\* weights[name] || 1
WeightOf(lb, id) ==
    IF id \in DOMAIN lb.weights /\ lb.weights[id] # 0 THEN lb.weights[id] ELSE 1

RECURSIVE TotalWeight(_, _)
TotalWeight(lb, ps) ==
    IF ps = << >> THEN 0 ELSE WeightOf(lb, Head(ps).id) + TotalWeight(lb, Tail(ps))

\* the loop of the weighted strategy, for random = r / RandomSteps scaled by
\* total: the first entry at which random - (weights so far) <= 0
RECURSIVE WeightedPick(_, _, _, _, _)
WeightedPick(lb, ps, r, total, sofar) ==
    IF ps = << >> THEN None
    ELSE IF r * total <= (sofar + WeightOf(lb, Head(ps).id)) * RandomSteps
         THEN Some(Head(ps))
         ELSE WeightedPick(lb, Tail(ps), r, total, sofar + WeightOf(lb, Head(ps).id))

\* getNextProvider() without the test of loadBalancing.enabled
GetNextProviderAlwaysBalanced(reg, r) ==
    LET enabledProviders == EnabledEntries(reg.providers)
    IN  IF Len(enabledProviders) = 0 THEN None
        ELSE Some(enabledProviders[((r * Len(enabledProviders)) \div RandomSteps) + 1])

\* getNextProvider(), Math.random() returning r / RandomSteps
GetNextProvider(reg, r) ==
    LET enabledProviders == EnabledEntries(reg.providers)
        n == Len(enabledProviders)
        lb == reg.loadBalancing
        picked == WeightedPick(lb, enabledProviders, r, TotalWeight(lb, enabledProviders), 0)
    IN  IF ~lb.enabled THEN GetActiveProvider(reg)
        ELSE IF n = 0 THEN None
        ELSE CASE lb.strategy = "round-robin" ->
                    Some(enabledProviders[((r * n) \div RandomSteps) + 1])
               [] lb.strategy = "weighted" ->
                    IF picked # None THEN picked ELSE Some(enabledProviders[1])
               [] lb.strategy = "least-latency" ->
                    Some(SortByPriority(enabledProviders)[1])
               [] OTHER -> GetActiveProvider(reg)

----------------------------------------------------------------------------
(* Inputs *)

\* the API key environment variables: none is set, ZAI_API_KEY is, or
\* ANTHROPIC_API_KEY is
EnvChoices ==
    {[anthropic |-> Empty, openai |-> Empty, zai |-> Empty],
     [anthropic |-> Empty, openai |-> Empty, zai |-> "k1"],
     [anthropic |-> "k1", openai |-> Empty, zai |-> Empty]}

\* addProvider(name, config)
AddConfigs ==
    {Provider("custom", "k1", TRUE, ZaiPriority),
     Provider("custom", Empty, TRUE, ZaiPriority),
     Provider("custom", "k1", FALSE, ZaiPriority)}

LbOff == [enabled |-> FALSE, strategy |-> "weighted", weights |-> Weights]
LbOn == [enabled |-> TRUE, strategy |-> "weighted", weights |-> Weights]

Registry(active, ps, lb) ==
    [activeProvider |-> active, providers |-> ps,
     fallbackOrder |-> <<"zai", "anthropic", "openai">>, loadBalancing |-> lb]

\* importConfiguration(registry): no provider at all; an enabled provider
\* without a key next to the active one; two enabled providers of equal
\* priority; an active provider that is not in providers; one provider
ImportRegistries ==
    {Registry("zai", << >>, LbOff),
     Registry("custom", <<Provider("zai", Empty, TRUE, ZaiPriority),
                          Provider("custom", "k1", TRUE, ZaiPriority)>>, LbOn),
     Registry("zai", <<Provider("custom", "k1", TRUE, ZaiPriority),
                       Provider("zai", "k1", TRUE, ZaiPriority)>>, LbOff),
     Registry("custom", <<Provider("zai", "k1", FALSE, ZaiPriority),
                          Provider("anthropic", "k1", TRUE, AnthropicPriority)>>, LbOn),
     Registry("zai", <<Provider("zai", "k1", TRUE, ZaiPriority)>>, LbOn)}

\* what providers.json holds when the manager is constructed: nothing that
\* can be read, or a registry saved earlier
FileChoices ==
    {None} \cup {Some(r) : r \in {x \in ImportRegistries :
                                    Len(x.providers) = 2 /\ x.activeProvider = "custom"}}

----------------------------------------------------------------------------
(* Registry operations *)

Op(op, id, flag, err, result) ==
    [op |-> op, id |-> id, flag |-> flag, prevActive |-> registry.activeProvider,
     err |-> err, result |-> result]

\* saveConfiguration() at the end of a mutating operation that has changed
\* the registry to reg: the file is overwritten with JSON.stringify(registry),
\* or mkdir / writeFile fails and the error is logged and re-thrown
Save(reg, op, id, flag) ==
    IF writable
    THEN /\ file' = Some(JsonClone(reg))
         /\ lastOp' = Op(op, id, flag, "none", None)
    ELSE /\ file' = file
         /\ lastOp' = Op(op, id, flag, "SaveFailed", None)

\* an operation that throws before it changes anything
Throw(op, id, flag, err) ==
    /\ lastOp' = Op(op, id, flag, err, None)
    /\ UNCHANGED <<registry, file>>

\* initialize(): loadConfiguration() then validateProviders(); nothing is saved
Initialize ==
    /\ registry' = ValidateProviders(LoadConfiguration(registry, env, file))
    /\ lastOp' = Op("initialize", LoadConfiguration(registry, env, file).activeProvider,
                    FALSE, "none", None)
    /\ UNCHANGED <<env, file, writable, clientVars>>

SetProviderApiKey(id, apiKey) ==
    /\ IF Lookup(registry.providers, id) = None
       THEN Throw("setProviderApiKey", id, FALSE, "NotFound")
       ELSE /\ registry' = [registry EXCEPT !.providers =
                   Assign(@, [Lookup(@, id)[1] EXCEPT !.apiKey = apiKey, !.enabled = TRUE])]
            /\ Save(registry', "setProviderApiKey", id, FALSE)
    /\ UNCHANGED <<env, writable, clientVars>>

\* setActiveProvider() without the test of enabled
SetActiveProviderUnchecked(id) ==
    /\ IF Lookup(registry.providers, id) = None
       THEN Throw("setActiveProvider", id, FALSE, "NotFound")
       ELSE /\ registry' = [registry EXCEPT !.activeProvider = id]
            /\ Save(registry', "setActiveProvider", id, FALSE)
    /\ UNCHANGED <<env, writable, clientVars>>

SetActiveProvider(id) ==
    /\ IF Lookup(registry.providers, id) = None
       THEN Throw("setActiveProvider", id, FALSE, "NotFound")
       ELSE IF ~Lookup(registry.providers, id)[1].enabled
       THEN Throw("setActiveProvider", id, FALSE, "Disabled")
       ELSE /\ registry' = [registry EXCEPT !.activeProvider = id]
            /\ Save(registry', "setActiveProvider", id, FALSE)
    /\ UNCHANGED <<env, writable, clientVars>>

AddProvider(config) ==
    /\ registry' = [registry EXCEPT !.providers = Assign(@, config)]
    /\ Save(registry', "addProvider", config.id, FALSE)
    /\ UNCHANGED <<env, writable, clientVars>>

\* removeProvider() whose filter does not leave out the removed name
RemoveProviderKeepsName(id) ==
    /\ IF Lookup(registry.providers, id) = None
       THEN Throw("removeProvider", id, FALSE, "NotFound")
       ELSE /\ registry' = [registry EXCEPT
                   !.activeProvider = IF @ = id THEN Reselect(registry.providers) ELSE @,
                   !.providers = Delete(@, id)]
            /\ Save(registry', "removeProvider", id, FALSE)
    /\ UNCHANGED <<env, writable, clientVars>>

RemoveProvider(id) ==
    /\ IF Lookup(registry.providers, id) = None
       THEN Throw("removeProvider", id, FALSE, "NotFound")
       ELSE /\ registry' = [registry EXCEPT
                   !.activeProvider =
                       IF @ = id THEN Reselect(Delete(registry.providers, id)) ELSE @,
                   !.providers = Delete(@, id)]
            /\ Save(registry', "removeProvider", id, FALSE)
    /\ UNCHANGED <<env, writable, clientVars>>

ToggleProvider(id, enabled) ==
    /\ IF Lookup(registry.providers, id) = None
       THEN Throw("toggleProvider", id, enabled, "NotFound")
       ELSE LET ps == Assign(registry.providers,
                             [Lookup(registry.providers, id)[1] EXCEPT !.enabled = enabled])
            IN  /\ registry' = [registry EXCEPT
                       !.providers = ps,
                       !.activeProvider =
                           IF ~enabled /\ @ = id THEN Reselect(ps) ELSE @]
                /\ Save(registry', "toggleProvider", id, enabled)
    /\ UNCHANGED <<env, writable, clientVars>>

ImportConfigurationOp(r) ==
    /\ registry' = ImportConfiguration(r)
    /\ Save(registry', "importConfiguration", r.activeProvider, FALSE)
    /\ UNCHANGED <<env, writable, clientVars>>

\* a call of getActiveProvider()
GetActiveProviderOp ==
    /\ lastOp' = Op("getActiveProvider", Empty, FALSE, "none", GetActiveProvider(registry))
    /\ UNCHANGED <<env, registry, file, writable, clientVars>>

\* a call of getNextProvider() in which Math.random() returns r / RandomSteps
GetNextProviderOp(r) ==
    /\ lastOp' = Op("getNextProvider", Empty, FALSE, "none", GetNextProvider(registry, r))
    /\ UNCHANGED <<env, registry, file, writable, clientVars>>

----------------------------------------------------------------------------
(* The client *)

\* what fetch() and the reading of the response can end with: the response
\* is read, the abort signal fires, the connection is refused, or the
\* provider answers with an HTTP error status
Ok == [name |-> "none", message |-> {}, code |-> Empty]
AbortError == [name |-> "AbortError", message |-> {"aborted"}, code |-> Empty]
ConnectionRefused == [name |-> "Error", message |-> {"fetch failed"}, code |-> "ECONNREFUSED"]
HttpError(status) == [name |-> "Error", message |-> {"HTTP", status}, code |-> Empty]
Outcomes ==
    {Ok, AbortError, ConnectionRefused,
     HttpError("401"), HttpError("429"), HttpError("500"), HttpError("400")}

\* the error of circuitBreaker.execute() when the circuit is open
CircuitOpenError == [name |-> "Error", message |-> {"circuit breaker is open"}, code |-> Empty]

\* handleAPIError(error); message.includes(t) is t \in error.message
HandleAPIError(error) ==
    IF error.name = "AbortError" THEN "TimeoutError"
    ELSE IF "401" \in error.message \/ "unauthorized" \in error.message
         THEN "AuthenticationError"
    ELSE IF "429" \in error.message \/ "rate limit" \in error.message
         THEN "RateLimitError"
    ELSE IF "500" \in error.message \/ "502" \in error.message \/ "503" \in error.message
         THEN "InternalServerError"
    ELSE IF "400" \in error.message \/ "bad request" \in error.message
         THEN "ValidationError"
    ELSE IF error.code = "ECONNREFUSED" \/ error.code = "ENOTFOUND"
         THEN "NetworkError"
    ELSE "APIError"

\* circuitBreaker.execute(fn) after fn has ended with outcome o
CircuitBreakerRecord(c, o) ==
    IF o = Ok THEN [c EXCEPT !.cbState = "CLOSED", !.cbFailures = 0]
    ELSE IF c.cbState = "HALF_OPEN" \/ c.cbFailures + 1 >= CircuitBreakerThreshold
         THEN [c EXCEPT !.cbState = "OPEN", !.cbFailures = CircuitBreakerThreshold]
    ELSE [c EXCEPT !.cbFailures = @ + 1]

\* Send with the test of config.apiKey made inside circuitBreaker.execute()
SendKeyCheckedLate(c, o, sent) ==
    IF c.cbState = "OPEN"
    THEN [client |-> c, cb |-> 1, net |-> 0,
          err |-> HandleAPIError(CircuitOpenError), event |-> "error"]
    ELSE IF c.apiKey = Empty
    THEN [client |-> CircuitBreakerRecord(c, HttpError("401")), cb |-> 1, net |-> 0,
          err |-> "AuthenticationError", event |-> "error"]
    ELSE IF o = Ok
    THEN [client |-> CircuitBreakerRecord(c, o), cb |-> 1, net |-> 1,
          err |-> "none", event |-> sent]
    ELSE [client |-> CircuitBreakerRecord(c, o), cb |-> 1, net |-> 1,
          err |-> HandleAPIError(o), event |-> "error"]

\* sendMessage() and sendStreamingMessage() for a request that ends with
\* outcome o: the client afterwards, the calls of execute() and of fetch()
\* made, the error thrown and the event emitted
Send(c, o, sent) ==
    IF c.apiKey = Empty
    THEN [client |-> c, cb |-> 0, net |-> 0, err |-> "AuthenticationError", event |-> "none"]
    ELSE IF c.cbState = "OPEN"
    THEN [client |-> c, cb |-> 1, net |-> 0,
          err |-> HandleAPIError(CircuitOpenError), event |-> "error"]
    ELSE IF o = Ok
    THEN [client |-> CircuitBreakerRecord(c, o), cb |-> 1, net |-> 1,
          err |-> "none", event |-> sent]
    ELSE [client |-> CircuitBreakerRecord(c, o), cb |-> 1, net |-> 1,
          err |-> HandleAPIError(o), event |-> "error"]

Call(op, o, sent) ==
    LET res == Send(client, o, sent)
    IN  /\ cbCalls + res.cb <= MaxCalls
        /\ client' = res.client
        /\ cbCalls' = cbCalls + res.cb
        /\ netCalls' = netCalls + res.net
        /\ lastCall' = [op |-> op, err |-> res.err, event |-> res.event,
                        cb |-> res.cb, net |-> res.net]
        /\ UNCHANGED registryVars

SendMessage(o) == Call("sendMessage", o, "message_sent")

SendStreamingMessage(o) == Call("sendStreamingMessage", o, "streaming_message_sent")

\* updateConfig({apiKey})
UpdateConfig(apiKey) ==
    /\ client' = [client EXCEPT !.apiKey = apiKey]
    /\ lastCall' = [op |-> "updateConfig", err |-> "none", event |-> "none",
                    cb |-> 0, net |-> 0]
    /\ UNCHANGED <<netCalls, cbCalls, registryVars>>

\* the reset timeout of the open circuit elapses
CircuitBreakerReset ==
    /\ client.cbState = "OPEN"
    /\ client' = [client EXCEPT !.cbState = "HALF_OPEN"]
    /\ UNCHANGED <<lastCall, netCalls, cbCalls, registryVars>>

----------------------------------------------------------------------------
(* The configuration of the client as text *)

\* a text is the sequence of its characters
Text(chars) == chars
\* '****...****'
Mask == <<"*", "*", "*", "*", ".", ".", ".", "*", "*", "*", "*">>

\* s.includes(t)
Includes(s, t) ==
    \E i \in 0..(Len(s) - Len(t)) : SubSeq(s, i + 1, i + Len(t)) = t

\* config.apiKey: '', 'sk', '**', 'u'
KeyTexts == {Text(<< >>), Text(<<"s", "k">>), Text(<<"*", "*">>), Text(<<"u">>)}
\* config.apiUrl and config.systemPrompt: 'u', 'u?sk', 'p'
OtherTexts == {Text(<<"u">>), Text(<<"u", "?", "s", "k">>), Text(<<"p">>)}

\* getConfig() that returns the configuration as it is
GetConfigUnmasked(c) ==
    [apiUrl |-> c.apiUrl, systemPrompt |-> c.systemPrompt, apiKey |-> Some(c.apiKey)]

\* getConfig(): { ...safeConfig, apiKey: apiKey ? '****...****' : undefined }
GetConfig(c) ==
    [apiUrl |-> c.apiUrl, systemPrompt |-> c.systemPrompt,
     apiKey |-> IF c.apiKey # Text(<< >>) THEN Some(Mask) ELSE None]

\* new ZaiAPIClient(logger, configManager, overrides)
InitConfig ==
    /\ cfg \in [apiKey : KeyTexts, apiUrl : OtherTexts, systemPrompt : OtherTexts]
    /\ got = None

\* updateConfig({apiKey}), updateConfig({apiUrl}), updateConfig({systemPrompt})
UpdateConfigText ==
    /\ \/ \E t \in KeyTexts : cfg' = [cfg EXCEPT !.apiKey = t]
       \/ \E t \in OtherTexts : cfg' = [cfg EXCEPT !.apiUrl = t]
       \/ \E t \in OtherTexts : cfg' = [cfg EXCEPT !.systemPrompt = t]
    /\ UNCHANGED <<got, registryCore, clientCore, streamVars, healthVars, saveVars, peerVars, aliasVars, moreVars>>

\* a call of getConfig()
GetConfigOp ==
    /\ got' = Some([of |-> cfg, out |-> GetConfig(cfg)])
    /\ UNCHANGED <<cfg, registryCore, clientCore, streamVars, healthVars, saveVars, peerVars, aliasVars, moreVars>>

----------------------------------------------------------------------------
(* One request: makeRequest() and makeStreamingRequest(), await by await *)

\* the lines of a streamed body: a chunk 'data: {json}', 'data: [DONE]', a
\* line 'data: ...' that JSON.parse rejects, a line without the prefix 'data: '
ChunkLine(id) == [kind |-> "chunk", id |-> id]
DoneLine == [kind |-> "done", id |-> 0]
MalformedLine == [kind |-> "malformed", id |-> 0]
OtherLine == [kind |-> "other", id |-> 0]
Lines == {ChunkLine(1), ChunkLine(2), DoneLine, MalformedLine, OtherLine}

\* chunk.split('\n') of one reader.read() result
ReadResults == UNION {[1..n -> Lines] : n \in 0..MaxLines}

\* the for loop over the lines of one read that treats 'data: [DONE]' as
\* one more line that does not parse
RECURSIVE ProcessLinesPastDone(_, _)
ProcessLinesPastDone(lines, out) ==
    IF lines = << >> THEN [delivered |-> out, returned |-> FALSE]
    ELSE IF Head(lines).kind = "chunk"
    THEN ProcessLinesPastDone(Tail(lines), Append(out, Head(lines).id))
    ELSE ProcessLinesPastDone(Tail(lines), out)

\* the for loop over the lines of one read: onChunk for every line that
\* parses, return at 'data: [DONE]', the other lines skipped
RECURSIVE ProcessLines(_, _)
ProcessLines(lines, out) ==
    IF lines = << >> THEN [delivered |-> out, returned |-> FALSE]
    ELSE IF Head(lines).kind = "done" THEN [delivered |-> out, returned |-> TRUE]
    ELSE IF Head(lines).kind = "chunk"
    THEN ProcessLines(Tail(lines), Append(out, Head(lines).id))
    ELSE ProcessLines(Tail(lines), out)

\* `HTTP ${response.status}: ${errorText}`, errorText holding the words body
HttpErrorText(status, body) ==
    [name |-> "Error", message |-> {"HTTP", status} \cup body, code |-> Empty]
Statuses == {"401", "429", "500", "400"}
ErrorTexts == {{}, {"401"}, {"unauthorized"}, {"rate limit"}}
NoBodyError == [name |-> "Error", message |-> {"No response body"}, code |-> Empty]
SyntaxError == [name |-> "SyntaxError", message |-> {"Unexpected token"}, code |-> Empty]

IdleRequest ==
    [kind |-> "none", pc |-> "idle", timer |-> FALSE, locked |-> FALSE,
     status |-> Empty, err |-> Ok]

InitStream ==
    /\ req = IdleRequest
    /\ delivered = << >>
    /\ reads = 0
    /\ doneRead = FALSE
    /\ expected = << >>

StreamFrame ==
    UNCHANGED <<registryCore, clientCore, configVars, healthVars, saveVars, peerVars, aliasVars, moreVars>>

\* the call ends with error e: the catch block clears the timer and rethrows
Fail(e) == [req EXCEPT !.pc = "failed", !.timer = FALSE, !.locked = FALSE, !.err = e]

\* makeRequest() / makeStreamingRequest() up to await fetch(): the abort
\* timer is set
StartRequest(kind) ==
    /\ req.pc \in {"idle", "done", "failed"}
    /\ req' = [IdleRequest EXCEPT !.kind = kind, !.pc = "fetching", !.timer = TRUE]
    /\ delivered' = << >>
    /\ reads' = 0
    /\ doneRead' = FALSE
    /\ expected' = << >>
    /\ StreamFrame

\* fetch() resolves with the response headers: clearTimeout(timeoutId)
FetchResolves ==
    /\ req.pc = "fetching"
    /\ \/ req' = [req EXCEPT !.timer = FALSE, !.status = "200",
                             !.pc = IF req.kind = "stream" THEN "streaming" ELSE "readingJson",
                             !.locked = (req.kind = "stream")]
       \/ \E status \in Statuses :
               req' = [req EXCEPT !.timer = FALSE, !.status = status, !.pc = "readingText"]
       \/ /\ req.kind = "stream"
          /\ req' = [Fail(NoBodyError) EXCEPT !.status = "200"]
    /\ UNCHANGED <<delivered, reads, doneRead, expected>>
    /\ StreamFrame

\* fetch() rejects: the connection cannot be made
FetchRejects ==
    /\ req.pc = "fetching"
    /\ req' = Fail(ConnectionRefused)
    /\ UNCHANGED <<delivered, reads, doneRead, expected>>
    /\ StreamFrame

\* the abort timer fires: controller.abort() rejects what waits on the signal
AbortFires ==
    /\ req.timer
    /\ req.pc \in {"fetching", "readingText", "readingJson", "streaming"}
    /\ req' = Fail(AbortError)
    /\ UNCHANGED <<delivered, reads, doneRead, expected>>
    /\ StreamFrame

\* await response.text() of a response that is not ok, then the throw
ErrorTextRead ==
    /\ req.pc = "readingText"
    /\ \/ \E body \in ErrorTexts : req' = Fail(HttpErrorText(req.status, body))
       \/ req' = Fail(ConnectionRefused)
    /\ UNCHANGED <<delivered, reads, doneRead, expected>>
    /\ StreamFrame

\* await response.json()
JsonRead ==
    /\ req.pc = "readingJson"
    /\ \/ req' = [req EXCEPT !.pc = "done"]
       \/ req' = Fail(SyntaxError)
       \/ req' = Fail(ConnectionRefused)
    /\ UNCHANGED <<delivered, reads, doneRead, expected>>
    /\ StreamFrame

\* ids of the chunk lines of one read that come before its first
\* 'data: [DONE]' line
RECURSIVE ChunksBeforeDone(_)
ChunksBeforeDone(lines) ==
    IF lines = << >> \/ Head(lines).kind = "done" THEN << >>
    ELSE IF Head(lines).kind = "chunk"
    THEN <<Head(lines).id>> \o ChunksBeforeDone(Tail(lines))
    ELSE ChunksBeforeDone(Tail(lines))

\* await reader.read() resolves with data: the lines are processed
StreamRead(lines) ==
    /\ req.pc = "streaming"
    /\ reads < MaxReads
    /\ LET res == ProcessLines(lines, delivered)
       IN  /\ delivered' = res.delivered
           /\ req' = IF res.returned
                     THEN [req EXCEPT !.pc = "done", !.locked = FALSE]
                     ELSE req
    /\ reads' = reads + 1
    /\ doneRead' = (doneRead \/ \E i \in 1..Len(lines) : lines[i].kind = "done")
    /\ expected' = IF doneRead THEN expected ELSE expected \o ChunksBeforeDone(lines)
    /\ StreamFrame

\* await reader.read() resolves with done, or rejects
StreamEnds ==
    /\ req.pc = "streaming"
    /\ \/ req' = [req EXCEPT !.pc = "done", !.locked = FALSE]
       \/ req' = Fail(ConnectionRefused)
    /\ UNCHANGED <<delivered, reads, doneRead, expected>>
    /\ StreamFrame

\* the typed error sendMessage() / sendStreamingMessage() rethrows
ApiErrorOf(r) == HandleAPIError(r.err)

----------------------------------------------------------------------------
(* Health checks of the client *)

\* the outcomes of the probe request used in the runs of the health checks
HealthOutcomes == {Ok, AbortError}

\* no timer, no health check made
HealthIdle ==
    /\ timers = {}
    /\ healthCheckTimer = 0
    /\ lastHealthCheck = None
    /\ pending = << >>

\* the handle setInterval() returns: one that names no active timer
NewTimer(ts) == CHOOSE i \in 1..(Cardinality(ts) + 1) : i \notin ts

\* startHealthCheck() that sets the new timer without clearing the old one
StartHealthCheckKeepsOld(ts, handle) ==
    [timers |-> ts \cup {NewTimer(ts)}, handle |-> NewTimer(ts)]

\* startHealthCheck() up to the first probe: the timers and the handle after
StartHealthCheck(ts, handle) ==
    LET cleared == IF handle # 0 THEN ts \ {handle} ELSE ts
    IN  [timers |-> cleared \cup {NewTimer(cleared)}, handle |-> NewTimer(cleared)]

\* stopHealthCheck(): the timers and the handle after
StopHealthCheck(ts, handle) ==
    IF handle # 0 THEN [timers |-> ts \ {handle}, handle |-> 0]
    ELSE [timers |-> ts, handle |-> handle]

\* performHealthCheck() that lets the error of the probe through
HealthCheckRethrows(err) ==
    IF err = "none" THEN [raised |-> "none", result |-> Some([healthy |-> TRUE, error |-> "none"])]
    ELSE [raised |-> err, result |-> None]

\* performHealthCheck() once sendMessage() has ended with err: what it
\* raises and the HealthCheckResult it makes
HealthCheckResult(err) ==
    IF err = "none" THEN [raised |-> "none", result |-> Some([healthy |-> TRUE, error |-> "none"])]
    ELSE [raised |-> "none", result |-> Some([healthy |-> FALSE, error |-> err])]

HealthCall(op, probe, raised, result) ==
    [op |-> op, err |-> raised, event |-> IF result # None THEN "health_check" ELSE "none",
     cb |-> 0, net |-> 0, probe |-> probe, result |-> result]

\* performHealthCheck() up to await this.sendMessage(...): the probe is sent
Probe(o) ==
    LET res == Send(client, o, "message_sent")
    IN  /\ Len(pending) < MaxProbes
        /\ cbCalls + res.cb <= MaxCalls
        /\ client' = res.client
        /\ cbCalls' = cbCalls + res.cb
        /\ netCalls' = netCalls + res.net
        /\ pending' = Append(pending, res.err)

HealthFrame == UNCHANGED <<registryCore, configVars, streamVars, saveVars, peerVars, aliasVars, moreVars>>

\* performHealthCheck() called by the user of the client
BeginHealthCheck(o) ==
    /\ Probe(o)
    /\ lastCall' = HealthCall("beginHealthCheck", "none", "none", None)
    /\ UNCHANGED <<timers, healthCheckTimer, lastHealthCheck>>
    /\ HealthFrame

\* an active interval timer fires: () => this.performHealthCheck()
TimerFires(o) ==
    /\ timers # {}
    /\ Probe(o)
    /\ lastCall' = HealthCall("timer", "none", "none", None)
    /\ UNCHANGED <<timers, healthCheckTimer, lastHealthCheck>>
    /\ HealthFrame

\* performHealthCheck() after the await: the result is stored, announced
\* and returned
PerformHealthCheck ==
    \E i \in 1..Len(pending) :
        LET out == HealthCheckResult(pending[i])
        IN  /\ pending' = SubSeq(pending, 1, i - 1) \o SubSeq(pending, i + 1, Len(pending))
            /\ lastHealthCheck' = IF out.result # None THEN out.result ELSE lastHealthCheck
            /\ lastCall' = HealthCall("performHealthCheck", pending[i], out.raised, out.result)
            /\ UNCHANGED <<client, netCalls, cbCalls, timers, healthCheckTimer>>
            /\ HealthFrame

\* updateConfig({enableHealthCheck})
UpdateConfigHealthCheck(enable, o) ==
    /\ IF enable
       THEN LET started == StartHealthCheck(timers, healthCheckTimer)
            IN  /\ timers' = started.timers
                /\ healthCheckTimer' = started.handle
                /\ Probe(o)
       ELSE LET stopped == StopHealthCheck(timers, healthCheckTimer)
            IN  /\ timers' = stopped.timers
                /\ healthCheckTimer' = stopped.handle
                /\ UNCHANGED <<client, netCalls, cbCalls, pending>>
    /\ lastCall' = HealthCall(IF enable THEN "startHealthCheck" ELSE "stopHealthCheck",
                              "none", "none", None)
    /\ UNCHANGED lastHealthCheck
    /\ HealthFrame

\* stopHealthCheck() and destroy()
StopOrDestroy(op) ==
    /\ LET stopped == StopHealthCheck(timers, healthCheckTimer)
       IN  /\ timers' = stopped.timers
           /\ healthCheckTimer' = stopped.handle
    /\ lastCall' = HealthCall(op, "none", "none", None)
    /\ UNCHANGED <<client, netCalls, cbCalls, pending, lastHealthCheck>>
    /\ HealthFrame

\* updateConfig({apiKey})
UpdateConfigKey(apiKey) ==
    /\ client' = [client EXCEPT !.apiKey = apiKey]
    /\ lastCall' = HealthCall("updateConfig", "none", "none", None)
    /\ UNCHANGED <<netCalls, cbCalls, healthVars>>
    /\ HealthFrame

\* getLastHealthCheck()
GetLastHealthCheck == lastHealthCheck

----------------------------------------------------------------------------
(* Mutating operations of the registry that overlap *)

SavesIdle == saves = << >>

SaveFrame ==
    UNCHANGED <<env, writable, lastOp, clientCore, configVars, streamVars, healthVars,
                peerVars, aliasVars, moreVars>>

\* the operation has changed the registry and waits in saveConfiguration()
\* for fs.mkdir()
BeginSave ==
    /\ Len(saves) < MaxSaves
    /\ saves' = Append(saves, [pc |-> "mkdir", content |-> None])
    /\ UNCHANGED file
    /\ SaveFrame

\* setProviderApiKey(id, apiKey) up to its first await
SetProviderApiKeyBegin(id, apiKey) ==
    /\ Lookup(registry.providers, id) # None
    /\ registry' = [registry EXCEPT !.providers =
           Assign(@, [Lookup(@, id)[1] EXCEPT !.apiKey = apiKey, !.enabled = TRUE])]
    /\ BeginSave

\* setActiveProvider(id) up to its first await
SetActiveProviderBegin(id) ==
    /\ Lookup(registry.providers, id) # None
    /\ Lookup(registry.providers, id)[1].enabled
    /\ registry' = [registry EXCEPT !.activeProvider = id]
    /\ BeginSave

\* fs.mkdir() of one save is done: JSON.stringify(this.registry) is taken
\* and handed to fs.writeFile()
SaveMkdirDone(i) ==
    /\ saves[i].pc = "mkdir"
    /\ saves' = [saves EXCEPT ![i] = [pc |-> "writing", content |-> Some(JsonClone(registry))]]
    /\ UNCHANGED <<registry, file>>
    /\ SaveFrame

\* fs.writeFile() of one save is done: the operation completes
SaveWriteDone(i) ==
    /\ saves[i].pc = "writing"
    /\ file' = saves[i].content
    /\ saves' = SubSeq(saves, 1, i - 1) \o SubSeq(saves, i + 1, Len(saves))
    /\ UNCHANGED registry
    /\ SaveFrame

----------------------------------------------------------------------------
(* Two clients in one process *)

Clients == 1..NumClients

\* the breaker circuitBreaker('zai-api', ...) hands to every client
SharedBreaker(i) == 1

\* the breaker the client i got from circuitBreaker('zai-api', ...) in its
\* constructor: one of its own
BreakerOf(i) == i

NewBreaker == [cbState |-> "CLOSED", cbFailures |-> 0]
NoPeerCall == [client |-> 0, cb |-> 0, net |-> 0, err |-> "none"]

PeersIdle ==
    /\ breakers = [i \in Clients |-> NewBreaker]
    /\ peerCall = NoPeerCall
    /\ failed = {}

PeerFrame ==
    UNCHANGED <<registryCore, client, lastCall, netCalls, configVars, streamVars, healthVars,
                saveVars, aliasVars, moreVars>>

\* sendMessage() through client i, the request ending with outcome o
PeerSendMessage(i, o) ==
    LET b == BreakerOf(i)
        c == [apiKey |-> "k1", cbState |-> breakers[b].cbState,
              cbFailures |-> breakers[b].cbFailures]
        res == Send(c, o, "message_sent")
    IN  /\ cbCalls + res.cb <= MaxCalls
        /\ cbCalls' = cbCalls + res.cb
        /\ breakers' = [breakers EXCEPT ![b] = [cbState |-> res.client.cbState,
                                               cbFailures |-> res.client.cbFailures]]
        /\ peerCall' = [client |-> i, cb |-> res.cb, net |-> res.net, err |-> res.err]
        /\ failed' = IF res.net = 1 /\ res.err # "none" THEN failed \cup {i} ELSE failed
        /\ PeerFrame

\* the reset timeout of an open circuit elapses
PeerBreakerReset(b) ==
    /\ breakers[b].cbState = "OPEN"
    /\ breakers' = [breakers EXCEPT ![b].cbState = "HALF_OPEN"]
    /\ UNCHANGED <<cbCalls, peerCall, failed>>
    /\ PeerFrame

----------------------------------------------------------------------------
(* The registry objects a caller of export and import holds *)

AliasIdle ==
    /\ held = None
    /\ aliased = FALSE

OtherIdle ==
    /\ SavesIdle
    /\ PeersIdle
    /\ AliasIdle

AliasFrame ==
    UNCHANGED <<env, writable, clientCore, configVars, streamVars, healthVars, saveVars,
                peerVars, moreVars>>

\* exportConfiguration(): the caller holds the value returned, an object
\* made by JSON.parse
ExportConfigurationOp ==
    /\ held' = Some(ExportConfiguration(registry))
    /\ aliased' = FALSE
    /\ lastOp' = Op("exportConfiguration", Empty, FALSE, "none", held')
    /\ UNCHANGED <<registry, file>>
    /\ AliasFrame

\* importConfiguration(r): this.registry = r makes the caller's object the
\* registry, validateProviders() changes it in place, then it is saved
ImportConfigurationHeld(r) ==
    /\ registry' = ImportConfiguration(r)
    /\ held' = Some(registry')
    /\ aliased' = TRUE
    /\ Save(registry', "importConfiguration", r.activeProvider, FALSE)
    /\ AliasFrame

\* the changes the caller makes to the object it holds
CallerChanges(r) ==
    {[r EXCEPT !.activeProvider = id] : id \in OpIds}
        \cup {[r EXCEPT !.providers = << >>]}
        \cup {[r EXCEPT !.providers = Assign(@, p)] : p \in AddConfigs}

\* the caller changes the object it holds; the manager's registry changes
\* with it when it is that object
CallerMutates(r) ==
    /\ held # None
    /\ r \in CallerChanges(held[1])
    /\ held' = Some(r)
    /\ registry' = IF aliased THEN r ELSE registry
    /\ lastOp' = Op("callerMutates", Empty, FALSE, "none", None)
    /\ UNCHANGED <<file, aliased>>
    /\ AliasFrame

----------------------------------------------------------------------------
(* The body of a streaming response as text *)

\* the texts of the lines, in pieces no read cuts further: the prefix
\* 'data: ', and the pieces of a payload
ChunkText(id) == <<"data: ", "{", id, "}">>
DoneText == <<"data: ", "[DONE]">>
MalformedText == <<"data: ", "{", "oops">>
CommentText == <<": ping">>
ChunkIds == {"1", "2"}
LineTexts == {ChunkText(id) : id \in ChunkIds} \cup {DoneText, MalformedText, CommentText}

\* the body made of the lines ls, each ended by a newline
RECURSIVE BodyText(_)
BodyText(ls) ==
    IF ls = << >> THEN << >> ELSE Head(ls) \o <<"\n">> \o BodyText(Tail(ls))

Bodies == {BodyText(ls) : ls \in UNION {[1..n -> LineTexts] : n \in 0..MaxBodyLines}}

\* chunk.split('\n')
RECURSIVE Split(_, _)
Split(text, line) ==
    IF text = << >> THEN <<line>>
    ELSE IF Head(text) = "\n" THEN <<line>> \o Split(Tail(text), << >>)
    ELSE Split(Tail(text), Append(line, Head(text)))

IdNumber(id) == IF id = "1" THEN 1 ELSE 2

\* what the loop does with one line: line.startsWith('data: '),
\* line.slice(6), the test for '[DONE]', JSON.parse
ParseLine(line) ==
    IF line = << >> \/ Head(line) # "data: " THEN OtherLine
    ELSE IF Tail(line) = <<"[DONE]">> THEN DoneLine
    ELSE IF Len(line) = 4 /\ line[2] = "{" /\ line[3] \in ChunkIds /\ line[4] = "}"
    THEN ChunkLine(IdNumber(line[3]))
    ELSE MalformedLine

ParseLines(text) ==
    LET lines == Split(text, << >>) IN [i \in 1..Len(lines) |-> ParseLine(lines[i])]

\* the for loop over the lines of one read with the exception of onChunk
\* leaving the loop and the call
RECURSIVE ProcessLinesCallbackEscapes(_, _, _)
ProcessLinesCallbackEscapes(lines, out, thr) ==
    IF lines = << >> THEN [delivered |-> out, returned |-> FALSE, raised |-> FALSE]
    ELSE IF Head(lines).kind = "done"
    THEN [delivered |-> out, returned |-> TRUE, raised |-> FALSE]
    ELSE IF Head(lines).kind = "chunk" /\ Head(lines).id \in thr
    THEN [delivered |-> Append(out, Head(lines).id), returned |-> FALSE, raised |-> TRUE]
    ELSE IF Head(lines).kind = "chunk"
    THEN ProcessLinesCallbackEscapes(Tail(lines), Append(out, Head(lines).id), thr)
    ELSE ProcessLinesCallbackEscapes(Tail(lines), out, thr)

\* the for loop over the lines of one read, onChunk raising an exception for
\* the ids in thr: the call of onChunk is inside the try whose catch logs
\* 'Failed to parse streaming chunk', so the loop goes on
RECURSIVE ProcessLinesCallback(_, _, _)
ProcessLinesCallback(lines, out, thr) ==
    IF lines = << >> THEN [delivered |-> out, returned |-> FALSE, raised |-> FALSE]
    ELSE IF Head(lines).kind = "done"
    THEN [delivered |-> out, returned |-> TRUE, raised |-> FALSE]
    ELSE IF Head(lines).kind = "chunk"
    THEN ProcessLinesCallback(Tail(lines), Append(out, Head(lines).id), thr)
    ELSE ProcessLinesCallback(Tail(lines), out, thr)

\* the registries with load balancing that getNextProvider() is applied to:
\* the built-in providers, each enabled or not, under each strategy, with
\* the default weights or with a weight of 0 and some providers unweighted
BalanceProviders ==
    {<<Provider("anthropic", "k1", a, AnthropicPriority),
       Provider("openai", "k1", o, OpenAIPriority),
       Provider("zai", "k1", z, ZaiPriority)>> : a, o, z \in BOOLEAN}
Strategies == {"round-robin", "weighted", "least-latency"}
WeightChoices == {Weights, [anthropic |-> 0, zai |-> 1]}
BalanceRegistries ==
    {Registry("zai", ps, [enabled |-> TRUE, strategy |-> st, weights |-> w]) :
        ps \in BalanceProviders, st \in Strategies, w \in WeightChoices}

NoPick == [reg |-> DefaultRegistry([anthropic |-> Empty, openai |-> Empty, zai |-> Empty]),
           r |-> 0, made |-> FALSE, result |-> None]

BalanceIdle == pick = NoPick

\* getNextProvider() on the registry, Math.random() returning r / RandomSteps
GetNextProviderPick(r) ==
    /\ ~pick.made
    /\ pick' = [pick EXCEPT !.r = r, !.made = TRUE, !.result = GetNextProvider(pick.reg, r)]
    /\ UNCHANGED <<registryCore, clientCore, configVars, streamVars, healthVars, saveVars,
                   peerVars, aliasVars, chunkVars, classifyVars, mergeVars, cliVars>>

\* the raw errors handleAPIError() is applied to, each with its cause: an
\* HTTP status whose body text holds the words text, or a transport failure
\* with an error code whose message holds them
ClassifyStatuses == {"500", "502", "503", "504", "400", "404"}
TransportCodes == {"ECONNREFUSED", "ENOTFOUND", "ECONNRESET"}
ClassifyTexts ==
    {{}, {"401"}, {"unauthorized"}, {"rate limit"}, {"429"}, {"500"}, {"bad request"}}
TransportError(code, text) ==
    [name |-> "Error", message |-> {"connect", code} \cup text, code |-> code]
RawErrors ==
    {[cause |-> "http", detail |-> status, error |-> HttpErrorText(status, text)] :
        status \in ClassifyStatuses, text \in ClassifyTexts}
    \cup {[cause |-> "transport", detail |-> code, error |-> TransportError(code, text)] :
             code \in TransportCodes, text \in ClassifyTexts}

NotClassified == [raw |-> [cause |-> "none", detail |-> Empty, error |-> Ok],
                  made |-> FALSE, result |-> "none"]

ClassifyIdle == classified = NotClassified

\* the catch block of sendMessage(): handleAPIError(error)
Classify ==
    /\ ~classified.made
    /\ classified' = [classified EXCEPT !.made = TRUE,
                                        !.result = HandleAPIError(classified.raw.error)]
    /\ UNCHANGED <<registryCore, clientCore, configVars, streamVars, healthVars, saveVars,
                   peerVars, aliasVars, chunkVars, balanceVars, mergeVars, cliVars>>

\* provider entries as a file can hold them: an object with the members it
\* was written with, which need not be all the members of a default entry
LoadedEntries ==
    {[id |-> "zai", apiKey |-> "k1"],
     [id |-> "zai", enabled |-> TRUE],
     [id |-> "zai", apiKey |-> "k1", enabled |-> TRUE, priority |-> AnthropicPriority],
     [id |-> "anthropic", apiKey |-> "k1", enabled |-> FALSE],
     [id |-> "anthropic", apiKey |-> Empty, enabled |-> FALSE, priority |-> ZaiPriority],
     [id |-> "custom", apiKey |-> "k1", enabled |-> TRUE, priority |-> ZaiPriority]}

\* the providers of a file: up to two entries under different names
LoadedProviders ==
    {<< >>} \cup {<<p>> : p \in LoadedEntries}
            \cup {pq \in {<<p, q>> : p \in LoadedEntries, q \in LoadedEntries} :
                     pq[1].id # pq[2].id}

NotMerged == [env |-> [anthropic |-> Empty, openai |-> Empty, zai |-> Empty],
              loaded |-> << >>, made |-> FALSE, result |-> << >>]

MergeIdle == merged = NotMerged

\* loadConfiguration() on a file that parses: the providers of the registry
LoadConfigurationMerge ==
    /\ ~merged.made
    /\ merged' = [merged EXCEPT
                     !.made = TRUE,
                     !.result = MergeProviders(DefaultProviders(merged.env), merged.loaded)]
    /\ UNCHANGED <<registryCore, clientCore, configVars, streamVars, healthVars, saveVars,
                   peerVars, aliasVars, chunkVars, balanceVars, classifyVars, cliVars>>

NoCommand == [cmd |-> "none", target |-> Empty, exit |-> 0, outcome |-> "none"]

CliIdle == cli = NoCommand

ChunksIdle ==
    /\ responseBody = << >>
    /\ wire = << >>
    /\ throws = {}

MoreIdle ==
    /\ ChunksIdle
    /\ BalanceIdle
    /\ ClassifyIdle
    /\ MergeIdle
    /\ CliIdle

ChunkFrame ==
    UNCHANGED <<registryCore, clientCore, configVars, healthVars, saveVars, peerVars,
                aliasVars, responseBody, throws, reads, balanceVars, classifyVars, mergeVars, cliVars>>

\* the error an onChunk callback raises
CallbackError == [name |-> "Error", message |-> {"onChunk failed"}, code |-> Empty]

\* await reader.read() resolves with the next n pieces of the body
StreamReadText(n) ==
    /\ req.pc = "streaming"
    /\ n \in 1..Len(wire)
    /\ LET lines == ParseLines(SubSeq(wire, 1, n))
           res == ProcessLinesCallback(lines, delivered, throws)
       IN  /\ delivered' = res.delivered
           /\ req' = IF res.raised THEN Fail(CallbackError)
                     ELSE IF res.returned THEN [req EXCEPT !.pc = "done", !.locked = FALSE]
                     ELSE req
           /\ doneRead' = (doneRead \/ \E i \in 1..Len(lines) : lines[i].kind = "done")
           /\ expected' = IF doneRead THEN expected
                          ELSE expected \o ChunksBeforeDone(lines)
    /\ wire' = SubSeq(wire, n + 1, Len(wire))
    /\ ChunkFrame

\* await reader.read() resolves with done: the body has been read
StreamTextEnds ==
    /\ req.pc = "streaming"
    /\ wire = << >>
    /\ req' = [req EXCEPT !.pc = "done", !.locked = FALSE]
    /\ UNCHANGED <<delivered, doneRead, expected, wire>>
    /\ ChunkFrame

----------------------------------------------------------------------------
(* The provider CLI: one process per invocation *)

\* new ZaiAPIClient(logger, configManager, {apiKey, ...}) with no call made
\* yet
NewClient(apiKey) == [apiKey |-> apiKey, cbState |-> "CLOSED", cbFailures |-> 0]

\* the manager of a process: its registry, the file, the error raised so far
Manager(reg, f) == [registry |-> reg, file |-> f, err |-> "none"]

\* saveConfiguration() of the registry reg
ManagerSave(m, reg) ==
    IF writable THEN [registry |-> reg, file |-> Some(JsonClone(reg)), err |-> "none"]
    ELSE [registry |-> reg, file |-> m.file, err |-> "SaveFailed"]

\* initialize()
ManagerInitialize(m) ==
    [m EXCEPT !.registry = ValidateProviders(LoadConfiguration(m.registry, env, m.file))]

\* setProviderApiKey(id, apiKey); an error raised earlier has ended the command
ManagerSetProviderApiKey(m, id, apiKey) ==
    IF m.err # "none" THEN m
    ELSE IF Lookup(m.registry.providers, id) = None THEN [m EXCEPT !.err = "NotFound"]
    ELSE ManagerSave(m, [m.registry EXCEPT !.providers =
             Assign(@, [Lookup(@, id)[1] EXCEPT !.apiKey = apiKey, !.enabled = TRUE])])

\* setActiveProvider(id)
ManagerSetActiveProvider(m, id) ==
    IF m.err # "none" THEN m
    ELSE IF Lookup(m.registry.providers, id) = None THEN [m EXCEPT !.err = "NotFound"]
    ELSE IF ~Lookup(m.registry.providers, id)[1].enabled THEN [m EXCEPT !.err = "Disabled"]
    ELSE ManagerSave(m, [m.registry EXCEPT !.activeProvider = id])

\* toggleProvider(id, enabled)
ManagerToggleProvider(m, id, enabled) ==
    IF m.err # "none" THEN m
    ELSE IF Lookup(m.registry.providers, id) = None THEN [m EXCEPT !.err = "NotFound"]
    ELSE LET ps == Assign(m.registry.providers,
                          [Lookup(m.registry.providers, id)[1] EXCEPT !.enabled = enabled])
         IN  ManagerSave(m, [m.registry EXCEPT
                 !.providers = ps,
                 !.activeProvider = IF ~enabled /\ @ = id THEN Reselect(ps) ELSE @])

\* removeProvider(id)
ManagerRemoveProvider(m, id) ==
    IF m.err # "none" THEN m
    ELSE IF Lookup(m.registry.providers, id) = None THEN [m EXCEPT !.err = "NotFound"]
    ELSE ManagerSave(m, [m.registry EXCEPT
             !.activeProvider =
                 IF @ = id THEN Reselect(Delete(m.registry.providers, id)) ELSE @,
             !.providers = Delete(@, id)])

\* testProvider(): what it prints about the active provider; the probe of
\* the client made for it ends with outcome o. Nothing is raised.
TestProvider(reg, o) ==
    LET activeProvider == GetActiveProvider(reg)
    IN  IF activeProvider = None THEN "noActive"
        ELSE IF activeProvider[1].id = "zai"
        THEN LET sent == Send(NewClient(activeProvider[1].apiKey), o, "message_sent")
             IN  IF HealthCheckResult(sent.err).result[1].healthy
                 THEN "healthy" ELSE "unhealthy"
        ELSE IF activeProvider[1].id = "anthropic"
        THEN IF o = Ok THEN "healthy" ELSE "unhealthy"
        ELSE "notImplemented"

\* the end of handleCommand(): an error raised by the action is caught,
\* printed, and the process exits with code 1; otherwise the process ends
\* with code 0
HandleCommandEnd(m, outcome) ==
    IF m.err # "none"
    THEN [registry |-> m.registry, file |-> m.file, exit |-> 1, outcome |-> m.err]
    ELSE [registry |-> m.registry, file |-> m.file, exit |-> 0, outcome |-> outcome]

\* new ProviderCommand() and handleCommand(options) up to the dispatch
Started == ManagerInitialize(Manager(DefaultRegistry(env), file))

\* provider --status | --list | (no option)
RunStatus == HandleCommandEnd(Started, "done")

\* provider --set <id> [--key <apiKey>]; an empty key is no key
RunSet(id, apiKey) ==
    IF apiKey # Empty
    THEN HandleCommandEnd(
             ManagerSetActiveProvider(ManagerSetProviderApiKey(Started, id, apiKey), id), "done")
    ELSE HandleCommandEnd(ManagerSetActiveProvider(Started, id), "done")

\* provider --test
RunTest(o) == HandleCommandEnd(Started, TestProvider(Started.registry, o))

\* provider --enable <id> | --disable <id>
RunToggle(id, enabled) == HandleCommandEnd(ManagerToggleProvider(Started, id, enabled), "done")

\* provider --remove <id>
RunRemove(id) == HandleCommandEnd(ManagerRemoveProvider(Started, id), "done")

\* provider zai|anthropic|openai <apiKey>: setupZai() and its like, which run
\* without initialize() and outside any try; an error they raise leaves the
\* action handler as a rejected promise, which ends the process with code 1
RunSetup(id, apiKey, o) ==
    LET m == ManagerSetActiveProvider(
                 ManagerSetProviderApiKey(Manager(DefaultRegistry(env), file), id, apiKey), id)
    IN  HandleCommandEnd(m, TestProvider(m.registry, o))

\* one invocation of the CLI that ran as run
Invoke(cmd, target, run) ==
    /\ registry' = run.registry
    /\ file' = run.file
    /\ cli' = [cmd |-> cmd, target |-> target, exit |-> run.exit, outcome |-> run.outcome]
    /\ UNCHANGED <<env, writable, lastOp, clientCore, configVars, streamVars, healthVars,
                   saveVars, peerVars, aliasVars, chunkVars, balanceVars, classifyVars,
                   mergeVars>>

Status == Invoke("status", Empty, RunStatus)
Set(id, apiKey) == Invoke("set", id, RunSet(id, apiKey))
Test(o) == Invoke("test", Empty, RunTest(o))
Toggle(id, enabled) == Invoke(IF enabled THEN "enable" ELSE "disable", id, RunToggle(id, enabled))
Remove(id) == Invoke("remove", id, RunRemove(id))
Setup(id, apiKey, o) == Invoke("setup", id, RunSetup(id, apiKey, o))

----------------------------------------------------------------------------
(* Specifications *)

\* the components a specification does not run
ConfigIdle ==
    /\ cfg = [apiKey |-> Text(<< >>), apiUrl |-> Text(<<"u">>), systemPrompt |-> Text(<<"p">>)]
    /\ got = None

AuxInit ==
    /\ ConfigIdle
    /\ InitStream
    /\ HealthIdle
    /\ OtherIdle
    /\ MoreIdle

\* no registry operation and no client call has run
RegistryIdle ==
    /\ env = [anthropic |-> Empty, openai |-> Empty, zai |-> Empty]
    /\ file = None
    /\ writable = TRUE
    /\ registry = DefaultRegistry(env)
    /\ lastOp = [op |-> "constructor", id |-> Empty, flag |-> FALSE,
                 prevActive |-> Empty, err |-> "none", result |-> None]

NoCall == [op |-> "constructor", err |-> "none", event |-> "none", cb |-> 0, net |-> 0]

\* new ProviderConfigManager(configManager): registry = getDefaultRegistry()
Init ==
    /\ env \in EnvChoices
    /\ file \in FileChoices
    /\ writable \in BOOLEAN
    /\ registry = DefaultRegistry(env)
    /\ lastOp = [op |-> "constructor", id |-> Empty, flag |-> FALSE,
                 prevActive |-> Empty, err |-> "none", result |-> None]
    /\ client = NewClient(Empty)
    /\ lastCall = NoCall
    /\ netCalls = 0
    /\ cbCalls = 0
    /\ AuxInit

Next ==
    \/ Initialize
    \/ \E id \in OpIds, apiKey \in ApiKeys : SetProviderApiKey(id, apiKey)
    \/ \E id \in OpIds : SetActiveProvider(id)
    \/ \E config \in AddConfigs : AddProvider(config)
    \/ \E id \in OpIds : RemoveProvider(id)
    \/ \E id \in OpIds, enabled \in BOOLEAN : ToggleProvider(id, enabled)
    \/ \E r \in ImportRegistries : ImportConfigurationOp(r)
    \/ GetActiveProviderOp
    \/ \E r \in 0..(RandomSteps - 1) : GetNextProviderOp(r)

Spec == Init /\ [][Next]_vars

InitClient ==
    /\ RegistryIdle
    /\ client \in {NewClient(apiKey) : apiKey \in ApiKeys}
    /\ lastCall = NoCall
    /\ netCalls = 0
    /\ cbCalls = 0
    /\ AuxInit

NextClient ==
    \/ \E o \in Outcomes : SendMessage(o)
    \/ \E o \in Outcomes : SendStreamingMessage(o)
    \/ \E apiKey \in ApiKeys : UpdateConfig(apiKey)
    \/ CircuitBreakerReset

SpecClient == InitClient /\ [][NextClient]_vars

InitConfigSpec ==
    /\ RegistryIdle
    /\ client = NewClient(Empty)
    /\ lastCall = NoCall
    /\ netCalls = 0
    /\ cbCalls = 0
    /\ InitConfig
    /\ InitStream
    /\ HealthIdle
    /\ OtherIdle
    /\ MoreIdle

NextConfig ==
    \/ UpdateConfigText
    \/ GetConfigOp

SpecConfig == InitConfigSpec /\ [][NextConfig]_vars

InitRequest ==
    /\ RegistryIdle
    /\ client = NewClient(Empty)
    /\ lastCall = NoCall
    /\ netCalls = 0
    /\ cbCalls = 0
    /\ ConfigIdle
    /\ InitStream
    /\ HealthIdle
    /\ OtherIdle
    /\ MoreIdle

NextRequest ==
    \/ \E kind \in {"request", "stream"} : StartRequest(kind)
    \/ FetchResolves
    \/ FetchRejects
    \/ AbortFires
    \/ ErrorTextRead
    \/ JsonRead
    \/ \E lines \in ReadResults : StreamRead(lines)
    \/ StreamEnds

SpecRequest == InitRequest /\ [][NextRequest]_vars

\* new ZaiAPIClient(logger, configManager, {apiKey, enableHealthCheck}); with
\* enableHealthCheck the constructor has run startHealthCheck()
InitHealth ==
    /\ RegistryIdle
    /\ ConfigIdle
    /\ InitStream
    /\ OtherIdle
    /\ MoreIdle
    /\ lastHealthCheck = None
    /\ lastCall = NoCall
    /\ \E apiKey \in ApiKeys :
           \/ /\ client = NewClient(apiKey)
              /\ netCalls = 0
              /\ cbCalls = 0
              /\ timers = {}
              /\ healthCheckTimer = 0
              /\ pending = << >>
           \/ \E o \in HealthOutcomes :
                  LET res == Send(NewClient(apiKey), o, "message_sent")
                      started == StartHealthCheck({}, 0)
                  IN  /\ client = res.client
                      /\ netCalls = res.net
                      /\ cbCalls = res.cb
                      /\ timers = started.timers
                      /\ healthCheckTimer = started.handle
                      /\ pending = <<res.err>>

NextHealth ==
    \/ \E o \in HealthOutcomes : BeginHealthCheck(o)
    \/ \E o \in HealthOutcomes : TimerFires(o)
    \/ PerformHealthCheck
    \/ \E enable \in BOOLEAN, o \in HealthOutcomes : UpdateConfigHealthCheck(enable, o)
    \/ \E op \in {"stopHealthCheck", "destroy"} : StopOrDestroy(op)
    \/ \E apiKey \in ApiKeys : UpdateConfigKey(apiKey)
    \/ CircuitBreakerReset

SpecHealth == InitHealth /\ [][NextHealth]_vars

ClientIdle ==
    /\ client = NewClient(Empty)
    /\ lastCall = NoCall
    /\ netCalls = 0
    /\ cbCalls = 0

\* new ProviderConfigManager(configManager) with ZAI_API_KEY set
InitSave ==
    /\ env = [anthropic |-> Empty, openai |-> Empty, zai |-> "k1"]
    /\ file = None
    /\ writable = TRUE
    /\ registry = DefaultRegistry(env)
    /\ lastOp = [op |-> "constructor", id |-> Empty, flag |-> FALSE,
                 prevActive |-> Empty, err |-> "none", result |-> None]
    /\ ClientIdle
    /\ AuxInit

NextSave ==
    \/ \E id \in {"zai", "anthropic"}, apiKey \in ApiKeys : SetProviderApiKeyBegin(id, apiKey)
    \/ \E id \in {"zai", "anthropic"} : SetActiveProviderBegin(id)
    \/ \E i \in 1..Len(saves) : SaveMkdirDone(i)
    \/ \E i \in 1..Len(saves) : SaveWriteDone(i)

SpecSave == InitSave /\ [][NextSave]_vars

\* two clients made with new ZaiAPIClient(logger, configManager,
\* {apiKey: 'k1', enableHealthCheck: false})
InitPeers ==
    /\ RegistryIdle
    /\ ClientIdle
    /\ AuxInit

NextPeers ==
    \/ \E i \in Clients, o \in HealthOutcomes : PeerSendMessage(i, o)
    \/ \E b \in Clients : PeerBreakerReset(b)

SpecPeers == InitPeers /\ [][NextPeers]_vars

InitAlias ==
    /\ RegistryIdle
    /\ ClientIdle
    /\ AuxInit

NextAlias ==
    \/ ExportConfigurationOp
    \/ \E r \in ImportRegistries : ImportConfigurationHeld(r)
    \/ \E r \in (IF held = None THEN {} ELSE CallerChanges(held[1])) : CallerMutates(r)

SpecAlias == InitAlias /\ [][NextAlias]_vars

\* sendStreamingMessage() at its first reader.read(): the response has come
\* with status 200 and a body
InitChunks ==
    /\ RegistryIdle
    /\ ClientIdle
    /\ ConfigIdle
    /\ HealthIdle
    /\ OtherIdle
    /\ BalanceIdle
    /\ ClassifyIdle
    /\ MergeIdle
    /\ CliIdle
    /\ req = [IdleRequest EXCEPT !.kind = "stream", !.pc = "streaming", !.locked = TRUE,
                                !.status = "200"]
    /\ delivered = << >>
    /\ reads = 0
    /\ doneRead = FALSE
    /\ expected = << >>
    /\ responseBody \in Bodies
    /\ wire = responseBody
    /\ throws \in SUBSET {IdNumber(id) : id \in ChunkIds}

NextChunks ==
    \/ \E n \in 1..Len(wire) : StreamReadText(n)
    \/ StreamTextEnds

SpecChunks == InitChunks /\ [][NextChunks]_vars

InitBalance ==
    /\ RegistryIdle
    /\ ClientIdle
    /\ ConfigIdle
    /\ InitStream
    /\ HealthIdle
    /\ OtherIdle
    /\ ChunksIdle
    /\ ClassifyIdle
    /\ MergeIdle
    /\ CliIdle
    /\ \E reg \in BalanceRegistries : pick = [NoPick EXCEPT !.reg = reg]

NextBalance == \E r \in 0..(RandomSteps - 1) : GetNextProviderPick(r)

SpecBalance == InitBalance /\ [][NextBalance]_vars

InitClassify ==
    /\ RegistryIdle
    /\ ClientIdle
    /\ ConfigIdle
    /\ InitStream
    /\ HealthIdle
    /\ OtherIdle
    /\ ChunksIdle
    /\ BalanceIdle
    /\ MergeIdle
    /\ CliIdle
    /\ \E raw \in RawErrors : classified = [NotClassified EXCEPT !.raw = raw]

NextClassify == Classify

SpecClassify == InitClassify /\ [][NextClassify]_vars

InitMerge ==
    /\ RegistryIdle
    /\ ClientIdle
    /\ ConfigIdle
    /\ InitStream
    /\ HealthIdle
    /\ OtherIdle
    /\ ChunksIdle
    /\ BalanceIdle
    /\ ClassifyIdle
    /\ CliIdle
    /\ \E e \in EnvChoices, loaded \in LoadedProviders :
           merged = [NotMerged EXCEPT !.env = e, !.loaded = loaded]

NextMerge == LoadConfigurationMerge

SpecMerge == InitMerge /\ [][NextMerge]_vars

\* no process has run: the file is unreadable or absent
InitCli ==
    /\ env \in EnvChoices
    /\ file = None
    /\ writable \in BOOLEAN
    /\ registry = DefaultRegistry(env)
    /\ lastOp = [op |-> "constructor", id |-> Empty, flag |-> FALSE,
                 prevActive |-> Empty, err |-> "none", result |-> None]
    /\ ClientIdle
    /\ AuxInit

NextCli ==
    \/ Status
    \/ \E id \in OpIds, apiKey \in ApiKeys : Set(id, apiKey)
    \/ \E o \in HealthOutcomes : Test(o)
    \/ \E id \in OpIds, enabled \in BOOLEAN : Toggle(id, enabled)
    \/ \E id \in OpIds : Remove(id)
    \/ \E id \in {"zai", "anthropic"}, apiKey \in ApiKeys, o \in HealthOutcomes :
           Setup(id, apiKey, o)

SpecCli == InitCli /\ [][NextCli]_vars

----------------------------------------------------------------------------
(* Properties *)

Active == registry.activeProvider
Providers == registry.providers

\* the enabled entry of highest priority, the earliest in iteration order
\* among those of equal priority; '' when no entry is enabled
BestEnabled(ps) ==
    IF \A i \in 1..Len(ps) : ~ps[i].enabled THEN Empty
    ELSE ps[CHOOSE i \in 1..Len(ps) :
                /\ ps[i].enabled
                /\ \A j \in 1..Len(ps) : ps[j].enabled =>
                      \/ ps[j].priority < ps[i].priority
                      \/ ps[j].priority = ps[i].priority /\ j >= i].id

\* C1: activeProvider is empty or names an entry of providers that is
\* enabled, in every reachable state of the registry.
C1_ActiveIsEnabledEntry ==
    Active = Empty \/ ActiveUsable(Providers, Active)

\* C2: every enabled provider has a non-empty apiKey, in every reachable
\* state of the registry.
C2_EnabledHasApiKey ==
    \A i \in 1..Len(Providers) : Providers[i].enabled => Providers[i].apiKey # Empty

\* C3: what a call of getActiveProvider() returns is never a disabled
\* provider: it is the entry activeProvider names when that entry is enabled,
\* and none when that entry is disabled or absent.
C3_GetActiveNeverDisabled ==
    lastOp.op = "getActiveProvider" =>
        /\ lastOp.result # None => lastOp.result[1].enabled
        /\ ActiveUsable(Providers, Active) => lastOp.result = Lookup(Providers, Active)
        /\ ~ActiveUsable(Providers, Active) => lastOp.result = None

C3_Witness ==
    /\ lastOp.op = "getActiveProvider"
    /\ Lookup(Providers, Active) # None
    /\ ~Lookup(Providers, Active)[1].enabled
    /\ lastOp.result = None

C5_ToggleReselects ==
    (lastOp.op = "toggleProvider" /\ lastOp.err # "NotFound") =>
        IF ~lastOp.flag /\ lastOp.prevActive = lastOp.id
        THEN Active = BestEnabled(Providers)
        ELSE Active = lastOp.prevActive

\* the active provider was disabled and two enabled providers of equal
\* priority were left, of which the first inserted became the active one
C5_Witness ==
    /\ lastOp.op = "toggleProvider" /\ lastOp.err = "none"
    /\ ~lastOp.flag /\ lastOp.prevActive = lastOp.id
    /\ Active # Empty
    /\ \E i \in 1..Len(Providers) :
          /\ Providers[i].id # Active /\ Providers[i].enabled
          /\ Providers[i].priority = Lookup(Providers, Active)[1].priority

\* C6: after initialize() and after importConfiguration(), no enabled
\* provider lacks an API key; the activeProvider that was read is kept when it
\* names an enabled entry; otherwise activeProvider is the enabled provider of
\* highest priority, and empty when no provider is enabled.
C6_ValidatedAfterLoad ==
    lastOp.op \in {"initialize", "importConfiguration"} =>
        /\ \A i \in 1..Len(Providers) : Providers[i].enabled => Providers[i].apiKey # Empty
        /\ IF ActiveUsable(Providers, lastOp.id)
           THEN Active = lastOp.id
           ELSE Active = BestEnabled(Providers)

C8_ExportImportRoundTrip ==
    ImportConfiguration(ExportConfiguration(registry)) = ExportConfiguration(registry)

\* C9: while loadBalancing.enabled is false, getNextProvider() returns what
\* getActiveProvider() returns in the same state, whatever Math.random() is.
C9_NextIsActiveWhenNotBalancing ==
    ~registry.loadBalancing.enabled =>
        /\ \A r \in 0..(RandomSteps - 1) :
              GetNextProvider(registry, r) = GetActiveProvider(registry)
        /\ lastOp.op = "getNextProvider" => lastOp.result = GetActiveProvider(registry)

\* load balancing is off, two providers are enabled, the active one is not
\* the first of them, and getNextProvider() has returned the active one
C9_Witness ==
    /\ ~registry.loadBalancing.enabled
    /\ lastOp.op = "getNextProvider"
    /\ lastOp.result # None
    /\ Len(EnabledEntries(Providers)) >= 2
    /\ lastOp.result[1].id = Active
    /\ EnabledEntries(Providers)[1].id # Active

\* C10: sendMessage() and sendStreamingMessage() called with an empty apiKey
\* throw an authentication error, without a call of circuitBreaker.execute()
\* and without a call of fetch().
C10_EmptyKeyFailsBeforeNetwork ==
    (lastCall.op \in {"sendMessage", "sendStreamingMessage"} /\ client.apiKey = Empty) =>
        /\ lastCall.err = "AuthenticationError"
        /\ lastCall.cb = 0
        /\ lastCall.net = 0

\* the call was made with an empty key while the circuit was open, after
\* requests had been made with a key
C10_Witness ==
    /\ lastCall.op \in {"sendMessage", "sendStreamingMessage"}
    /\ client.apiKey = Empty
    /\ client.cbState = "OPEN"
    /\ netCalls > 0
    /\ lastCall.err = "AuthenticationError"

\* the texts of a value returned by getConfig()
OutputTexts(out) ==
    {out.apiUrl, out.systemPrompt} \cup {out.apiKey[i] : i \in 1..Len(out.apiKey)}

\* C11 as stated: no field of the value getConfig() returns contains the
\* configured API key, whatever the key and the other fields are.
C11_NoKeyInOutput ==
    (got # None /\ got[1].of.apiKey # Text(<< >>)) =>
        \A t \in OutputTexts(got[1].out) : ~Includes(t, got[1].of.apiKey)

\* C11 amended: getConfig() returns the placeholder in place of a configured
\* key, undefined in place of an empty one, and the other fields as they are
\* configured; the key occurs in the returned value only inside the
\* placeholder or inside another field that was configured with it.
C11_KeyFieldMasked ==
    got # None =>
        /\ got[1].out.apiKey = IF got[1].of.apiKey # Text(<< >>) THEN Some(Mask) ELSE None
        /\ got[1].out.apiUrl = got[1].of.apiUrl
        /\ got[1].out.systemPrompt = got[1].of.systemPrompt
        /\ \A t \in OutputTexts(got[1].out) :
              (got[1].of.apiKey # Text(<< >>) /\ Includes(t, got[1].of.apiKey)) =>
                  \/ Includes(Mask, got[1].of.apiKey)
                  \/ t \in {got[1].of.apiUrl, got[1].of.systemPrompt}

\* getConfig() was called with the key 'sk' configured and no field holding it
C11_Witness ==
    /\ got # None
    /\ got[1].of = cfg
    /\ cfg.apiKey = Text(<<"s", "k">>)
    /\ got[1].out.apiKey = Some(Mask)
    /\ \A t \in OutputTexts(got[1].out) : ~Includes(t, cfg.apiKey)

\* C12: once a line 'data: [DONE]' has been read, onChunk has been invoked
\* for the chunk lines read before it and for nothing else, no further
\* invocation follows, and the call has returned without an error.
C12_DoneTerminatesStream ==
    doneRead =>
        /\ delivered = expected
        /\ req.pc = "done"
        /\ req.err = Ok
        /\ ~req.locked

\* the [DONE] line came in the second read, after a delivered chunk, with a
\* chunk line behind it in the same read
C12_Witness ==
    /\ doneRead
    /\ reads = MaxReads
    /\ Len(delivered) > 0
    /\ req.pc = "done"

\* C13: whatever the text of the response body, a call that failed on an
\* HTTP 429 response is classified as a rate-limit error, one that failed on
\* an HTTP 401 response as an authentication error, and one whose abort
\* timer fired as a timeout error.
C13_ClassifiedByCause ==
    req.pc = "failed" =>
        /\ req.err.name = "AbortError" => ApiErrorOf(req) = "TimeoutError"
        /\ ("HTTP" \in req.err.message /\ req.status = "429")
               => ApiErrorOf(req) = "RateLimitError"
        /\ ("HTTP" \in req.err.message /\ req.status = "401")
               => ApiErrorOf(req) = "AuthenticationError"

\* C16: as long as a call waits for the provider (for the response headers,
\* for the body, for the next part of a stream) its abort timer is armed.
C16_AbortTimerCovers ==
    req.pc \in {"fetching", "readingText", "readingJson", "streaming"} => req.timer

\* C17: every sendMessage / sendStreamingMessage call has emitted its one
\* outcome event when it returns: the success event of the operation when it
\* returns normally, the error event when it fails, whatever the failure.
C17_OneOutcomeEvent ==
    /\ lastCall.op = "sendMessage" =>
           lastCall.event = IF lastCall.err = "none" THEN "message_sent" ELSE "error"
    /\ lastCall.op = "sendStreamingMessage" =>
           lastCall.event = IF lastCall.err = "none" THEN "streaming_message_sent"
                            ELSE "error"

\* C14: performHealthCheck() raises nothing, whatever the probe ended with:
\* it returns a result that is healthy exactly when the probe succeeded and
\* that carries the error of the probe otherwise, and getLastHealthCheck()
\* returns that same result.
C14_HealthCheckNeverRaises ==
    lastCall.op = "performHealthCheck" =>
        /\ lastCall.err = "none"
        /\ lastCall.result # None
        /\ lastCall.result[1].healthy = (lastCall.probe = "none")
        /\ lastCall.result[1].error = lastCall.probe
        /\ GetLastHealthCheck = lastCall.result

\* a health check has ended whose probe the open circuit rejected
C14_Witness ==
    /\ lastCall.op = "performHealthCheck"
    /\ lastCall.probe = "APIError"
    /\ client.cbState = "OPEN"

\* C15: the client has at most one active interval timer, the one its field
\* healthCheckTimer names, and none once stopHealthCheck() or destroy() has
\* run, until health checks are started again.
C15_AtMostOneTimer ==
    /\ Cardinality(timers) <= 1
    /\ timers = IF healthCheckTimer # 0 THEN {healthCheckTimer} ELSE {}
    /\ lastCall.op \in {"stopHealthCheck", "destroy"} => timers = {}

\* health checks were started while a timer was active
C15_Witness ==
    /\ lastCall.op = "startHealthCheck"
    /\ lastHealthCheck # None
    /\ timers # {}

\* C18: when no mutating operation is under way and one has completed, the
\* persisted file holds exactly the in-memory registry, also when the
\* operations were started without waiting for one another.
C18_FileIsRegistryWhenQuiet ==
    (saves = << >> /\ file # None) => file = Some(JsonClone(registry))

\* C19: a call made through one client is rejected without a network attempt
\* only after a call made through that same client has failed.
C19_BreakerPrivate ==
    (peerCall.client # 0 /\ peerCall.cb = 1 /\ peerCall.net = 0)
        => peerCall.client \in failed

\* a call through client 2 reached the network while the circuit of client 1
\* was open
C19_Witness ==
    /\ peerCall.client = 2
    /\ peerCall.net = 1
    /\ breakers[BreakerOf(1)].cbState = "OPEN"
    /\ failed = {1}

\* C20: a change the caller makes to a registry object it got from
\* exportConfiguration() or gave to importConfiguration() leaves the
\* manager's registry as it was.
C20_CallerMutationIsolated ==
    [][lastOp'.op = "callerMutates" => registry' = registry]_vars

\* C21: when a streaming call has ended, onChunk has been invoked once, in
\* order, for each well-formed chunk line of the body before the [DONE]
\* line, however the body was cut into reads.
C21_ChunksWhateverTheSplit ==
    req.pc = "done" => delivered = ChunksBeforeDone(ParseLines(responseBody))

\* C30: an exception of onChunk does not end the stream: onChunk has been
\* invoked for every chunk line read so far before the [DONE] line, and the
\* call has not failed.
C30_CallbackErrorSkipped ==
    /\ req.pc # "failed"
    /\ delivered = expected

\* the call has ended after onChunk raised for one chunk and was invoked
\* for a later one
C30_Witness ==
    /\ req.pc = "done"
    /\ \E i, j \in 1..Len(delivered) : i < j /\ delivered[i] \in throws

\* C27: activeProvider is empty only if no provider is enabled.
C27_ActiveWheneverEnabled ==
    Active = Empty => EnabledEntries(Providers) = << >>

\* the operations that change the registry and save it
MutatingOps ==
    {"setProviderApiKey", "setActiveProvider", "addProvider", "removeProvider",
     "toggleProvider", "importConfiguration"}

\* the registry of a new manager in the same environment after initialize()
Reloaded == ValidateProviders(LoadConfiguration(DefaultRegistry(env), env, file))

\* C28: after a mutating operation that succeeded, a new manager that runs
\* initialize() on the persisted file holds the same provider names and the
\* same activeProvider.
C28_ReloadKeepsNamesAndActive ==
    (lastOp.op \in MutatingOps /\ lastOp.err = "none") =>
        /\ Keys(Reloaded.providers) = Keys(Providers)
        /\ Reloaded.activeProvider = Active

\* C29: a mutating operation that raises an error leaves the in-memory
\* registry as it was before the call.
C29_FailedOpChangesNothing ==
    [][(lastOp' # lastOp /\ lastOp'.op \in MutatingOps /\ lastOp'.err # "none")
          => registry' = registry]_vars

\* the weight the registry configures for a provider, 1 when it configures
\* none
ConfiguredWeight(lb, id) == IF id \in DOMAIN lb.weights THEN lb.weights[id] ELSE 1

RECURSIVE ConfiguredTotal(_, _)
ConfiguredTotal(lb, ps) ==
    IF ps = << >> THEN 0 ELSE ConfiguredWeight(lb, Head(ps).id) + ConfiguredTotal(lb, Tail(ps))

\* the first provider of ps at which the cumulative configured weight
\* reaches the draw r / RandomSteps of [0, total)
RECURSIVE FirstReaching(_, _, _, _, _)
FirstReaching(lb, ps, r, total, sofar) ==
    IF ps = << >> THEN None
    ELSE IF (sofar + ConfiguredWeight(lb, Head(ps).id)) * RandomSteps >= r * total
         THEN Some(Head(ps))
         ELSE FirstReaching(lb, Tail(ps), r, total, sofar + ConfiguredWeight(lb, Head(ps).id))

\* C24: with load balancing enabled, getNextProvider() returns none exactly
\* when no provider is enabled and an enabled provider otherwise: under
\* least-latency one of highest priority, under weighted the first at which
\* the cumulative configured weight (1 where none is configured) reaches the
\* draw.
C24_BalancedPick ==
    pick.made =>
        LET ps == EnabledEntries(pick.reg.providers)
            lb == pick.reg.loadBalancing
            total == ConfiguredTotal(lb, ps)
        IN  /\ (pick.result = None) <=> (ps = << >>)
            /\ pick.result # None =>
                  /\ pick.result[1].enabled
                  /\ \E i \in 1..Len(ps) : ps[i] = pick.result[1]
                  /\ lb.strategy = "least-latency" =>
                        \A i \in 1..Len(ps) : ps[i].priority <= pick.result[1].priority
                  /\ (lb.strategy = "weighted" /\ total > 0) =>
                        pick.result = FirstReaching(lb, ps, pick.r, total, 0)

\* C25: whatever the text of the message, a failure on an HTTP 5xx response
\* is classified as a server error, one on an HTTP 400 response as a
\* validation error, a transport failure with code ECONNREFUSED or ENOTFOUND
\* as a network error, and only a failure with none of these causes as the
\* generic API error.
C25_RemainingCauses ==
    classified.made =>
        LET raw == classified.raw
            serverCause == raw.cause = "http" /\ raw.detail \in {"500", "502", "503", "504"}
            validationCause == raw.cause = "http" /\ raw.detail = "400"
            networkCause ==
                raw.cause = "transport" /\ raw.detail \in {"ECONNREFUSED", "ENOTFOUND"}
        IN  /\ serverCause => classified.result = "InternalServerError"
            /\ validationCause => classified.result = "ValidationError"
            /\ networkCause => classified.result = "NetworkError"
            /\ classified.result = "APIError" =>
                  ~(serverCause \/ validationCause \/ networkCause)

\* the members of a provider entry
ProviderFields == {"apiKey", "enabled", "priority"}

\* C26: after loadConfiguration() has read a file, a provider present in the
\* defaults and in the file has, member by member, the loaded value when the
\* file has that member and the default value otherwise; a provider missing
\* from the file has its default entry; a provider only in the file is as
\* loaded.
C26_MergedFieldByField ==
    merged.made =>
        LET defaults == DefaultProviders(merged.env)
        IN  /\ Keys(merged.result) = Keys(defaults) \cup Keys(merged.loaded)
            /\ \A id \in Keys(merged.result) :
                  LET m == Lookup(merged.result, id)[1]
                      d == Lookup(defaults, id)
                      l == Lookup(merged.loaded, id)
                  IN  /\ l = None => m = d[1]
                      /\ d = None => m = l[1]
                      /\ (l # None /\ d # None) =>
                            \A f \in ProviderFields :
                                /\ f \in DOMAIN m
                                /\ m[f] = IF f \in DOMAIN l[1] THEN l[1][f] ELSE d[1][f]

\* the ways the requested action of an invocation fails
HandledFailures == {"NotFound", "Disabled", "SaveFailed", "noActive", "unhealthy"}

\* C22: an invocation of the provider CLI whose action failed has exited
\* with code 1, and one that exited with code 0 has succeeded.
C22_ExitCodeTellsFailure ==
    cli.cmd # "none" => ((cli.outcome \in HandledFailures) <=> (cli.exit = 1))

\* the registry the next process starts with after an invocation that ran as
\* run
RegistryAfter(run) == ManagerInitialize(Manager(DefaultRegistry(env), run.file)).registry

\* C23: from any persisted file and environment, 'provider zai <key>' and
\* 'provider --set zai --key <key>' leave the same registry and the same
\* file, and so the same registry to the next process.
C23_QuickSetupAsSetWithKey ==
    \A o \in HealthOutcomes :
        /\ RunSetup("zai", "k1", o).file = RunSet("zai", "k1").file
        /\ RegistryAfter(RunSetup("zai", "k1", o)) = RegistryAfter(RunSet("zai", "k1"))

====
